---- MODULE Spec2Model ----
(***************************************************************************)
(* Model of streamlit_app.py (SuperDespacho - monthly projection).         *)
(*                                                                         *)
(* The module holds four specifications over one set of variables:         *)
(*   SpecBaseline   seasonal_baseline applied to bounded series            *)
(*   SpecFilter     safe_filter_options applied to bounded option lists    *)
(*   SpecAggregate  the company-month aggregate of the category panel      *)
(*   Spec           the script: panel files, the loader cache and reruns   *)
(***************************************************************************)
EXTENDS Integers, Sequences, FiniteSets, TLC

VARIABLES
    pc,               \* "call" before a helper is applied, "return" after; "idle" in Spec
    series_m,         \* seasonal_baseline: the series, a sequence of entries
    target_month,     \* seasonal_baseline: the target timestamp
    k_years,          \* seasonal_baseline: parameter k_years
    fallback_last_n,  \* seasonal_baseline: parameter fallback_last_n
    yhat,             \* seasonal_baseline: the returned float (an exact fraction)
    options,          \* safe_filter_options: the list of option strings
    query,            \* safe_filter_options: the query, or None
    max_show,         \* safe_filter_options: parameter max_show
    out,              \* safe_filter_options: the returned list
    cat,              \* tab3: the category-month panel (rows)
    dfE,              \* tab3: the company-month panel computed from cat
    files,            \* the three panel files on disk
    cache,            \* st.cache_data store of load_parquet
    run               \* what the last run of the script did

baselineVars == <<series_m, target_month, k_years, fallback_last_n, yhat>>
filterVars == <<options, query, max_show, out>>
aggVars == <<cat, dfE>>
appVars == <<files, cache, run>>
vars == <<pc, baselineVars, filterVars, aggVars, appVars>>

----------------------------------------------------------------------------
(* Bounds of the model. *)

MaxLen == 4          \* entries of a series
MaxWindow == 2       \* k_years / fallback_last_n are drawn from 1..MaxWindow and the defaults

(* Program constants. *)
K_YEARS == 3
FALLBACK_LAST_N == 6

----------------------------------------------------------------------------
(* Timestamps: [year, month, day].                                          *)

Ts(y, m, d) == [year |-> y, month |-> m, day |-> d]

TsLess(a, b) ==
    \/ a.year < b.year
    \/ a.year = b.year /\ a.month < b.month
    \/ a.year = b.year /\ a.month = b.month /\ a.day < b.day

\* pd.to_datetime(ts).to_period("M").to_timestamp(): first day of ts's month
normalize_month(ts) == [ts EXCEPT !.day = 1]

----------------------------------------------------------------------------
(* Floats are modelled as exact fractions in lowest terms, den > 0.         *)

Abs(x) == IF x < 0 THEN -x ELSE x

RECURSIVE GCD(_, _)
GCD(a, b) == IF b = 0 THEN a ELSE GCD(b, a % b)

Frac(n, d) ==
    LET g == GCD(Abs(n), d)
    IN  [num |-> n \div g, den |-> d \div g]

Zero == [num |-> 0, den |-> 1]

FracGt(a, b) == a.num * b.den > b.num * a.den

\* max(0.0, yhat) dropped: yhat returned as it is
PyMax_unfloored(a, b) == b

\* Python max(a, b): b when b > a, else a
PyMax(a, b) == IF FracGt(b, a) THEN b ELSE a

RECURSIVE SumValues(_)
SumValues(s) == IF s = <<>> THEN 0 ELSE Head(s).value + SumValues(Tail(s))

\* Series.mean() of a non-empty float series
mean(s) == Frac(SumValues(s), Len(s))

----------------------------------------------------------------------------
(* A series is a sequence of entries [index, value, isna] in storage order. *)

Entry(t, v, na) == [index |-> t, value |-> v, isna |-> na]

\* Series.dropna()
dropna(s) == SelectSeq(s, LAMBDA e : ~e.isna)

\* insertion of e into an ascending sequence, after the entries not greater (stable)
RECURSIVE InsertByIndex(_, _)
InsertByIndex(e, s) ==
    IF s = <<>> THEN <<e>>
    ELSE IF TsLess(e.index, Head(s).index) THEN <<e>> \o s
    ELSE <<Head(s)>> \o InsertByIndex(e, Tail(s))

\* sort_index() dropped: the series is used in storage order
sort_index_unsorted(s) == s

\* Series.sort_index(): ascending by index
RECURSIVE sort_index(_)
sort_index(s) ==
    IF s = <<>> THEN <<>>
    ELSE InsertByIndex(s[Len(s)], sort_index(SubSeq(s, 1, Len(s) - 1)))

\* head(n) in place of tail(n): the first n entries
tail_head(s, n) == IF n >= Len(s) THEN s ELSE SubSeq(s, 1, n)

\* Series.tail(n), n >= 0: the last n entries
tail(s, n) == IF n >= Len(s) THEN s ELSE SubSeq(s, Len(s) - n + 1, Len(s))

\* s[s.index.month == m]
same_month_of(s, m) == SelectSeq(s, LAMBDA e : e.index.month = m)

\* seasonal_baseline selecting only same-month entries dated before the target
seasonal_baseline_before_target(series, target, k, n) ==
    LET s == sort_index(dropna(series))
        t == normalize_month(target)
        same_month == SelectSeq(s, LAMBDA e : e.index.month = t.month /\ TsLess(e.index, t))
    IN  IF s = <<>> THEN Zero
        ELSE IF Len(same_month) >= 1
             THEN PyMax(Zero, mean(tail(same_month, k)))
             ELSE PyMax(Zero, mean(tail(s, n)))

seasonal_baseline(series, target, k, n) ==
    LET s == sort_index(dropna(series))
        m == normalize_month(target).month
        same_month == same_month_of(s, m)
    IN  IF s = <<>> THEN Zero
        ELSE IF Len(same_month) >= 1
             THEN PyMax(Zero, mean(tail(same_month, k)))
             ELSE PyMax(Zero, mean(tail(s, n)))

----------------------------------------------------------------------------
(* SpecBaseline: seasonal_baseline on bounded inputs.                       *)

\* month-start timestamps a series may be indexed by (load_parquet normalises them)
IndexYears == 2022 .. 2025
IndexMonths == {2, 6}
IndexUniverse == {Ts(y, m, 1) : y \in IndexYears, m \in IndexMonths}

\* a cell of a series: a value, or missing (isna)
ValueUniverse == {-2, 4}
CellUniverse == {[value |-> v, isna |-> FALSE] : v \in ValueUniverse}
                    \cup {[value |-> 0, isna |-> TRUE]}

TargetUniverse == {Ts(2024, 2, 1), Ts(2026, 2, 15), Ts(2025, 12, 1)}

\* (k_years, fallback_last_n): the defaults of the signature and small windows
ArgPairs == {<<K_YEARS, FALLBACK_LAST_N>>} \cup {<<j, j>> : j \in 1 .. MaxWindow}

MinTs(S) == CHOOSE t \in S : \A u \in S : u = t \/ TsLess(t, u)

\* the series with index set keys and cells c, stored in ascending index order
RECURSIVE AscendingSeries(_, _)
AscendingSeries(keys, c) ==
    IF keys = {} THEN <<>>
    ELSE LET t == MinTs(keys)
         IN  <<Entry(t, c[t].value, c[t].isna)>> \o AscendingSeries(keys \ {t}, c)

Reverse(s) == [i \in 1 .. Len(s) |-> s[Len(s) + 1 - i]]

InitOthersIdle ==
    /\ files = <<>>
    /\ cache = <<>>
    /\ run = <<>>

InitBaselineIdle ==
    /\ series_m = <<>>
    /\ target_month = Ts(2026, 2, 1)
    /\ k_years = K_YEARS
    /\ fallback_last_n = FALLBACK_LAST_N
    /\ yhat = Zero

InitFilterIdle ==
    /\ options = <<>>
    /\ query = <<>>
    /\ max_show = 0
    /\ out = <<>>

InitAggIdle ==
    /\ cat = <<>>
    /\ dfE = <<>>

InitBaseline ==
    /\ pc = "call"
    /\ \E keys \in SUBSET IndexUniverse :
          /\ Cardinality(keys) <= MaxLen
          /\ \E c \in [keys -> CellUniverse] :
                \E descending \in BOOLEAN :
                   series_m = IF descending THEN Reverse(AscendingSeries(keys, c))
                                            ELSE AscendingSeries(keys, c)
    /\ target_month \in TargetUniverse
    /\ k_years = K_YEARS
    /\ fallback_last_n = FALLBACK_LAST_N
    /\ yhat = Zero
    /\ InitFilterIdle /\ InitAggIdle /\ InitOthersIdle

\* a call seasonal_baseline(series_m, target_month, k, n)
CallSeasonalBaseline ==
    /\ pc = "call"
    /\ \E a \in ArgPairs :
          /\ k_years' = a[1]
          /\ fallback_last_n' = a[2]
          /\ yhat' = seasonal_baseline(series_m, target_month, a[1], a[2])
    /\ pc' = "return"
    /\ UNCHANGED <<series_m, target_month, filterVars, aggVars, appVars>>

NextBaseline == CallSeasonalBaseline

SpecBaseline == InitBaseline /\ [][NextBaseline]_vars

----------------------------------------------------------------------------
(* What the claims about seasonal_baseline speak of, stated over positions  *)
(* of series_m as sets, independently of the order of storage.              *)

Present == {i \in 1 .. Len(series_m) : ~series_m[i].isna}
SameMonth == {i \in Present : series_m[i].index.month = target_month.month}

Min(a, b) == IF a <= b THEN a ELSE b

\* the j chronologically last positions of P
ChronLast(P, j) ==
    CHOOSE T \in SUBSET P :
        /\ Cardinality(T) = j
        /\ \A i \in T, o \in P \ T : TsLess(series_m[o].index, series_m[i].index)

RECURSIVE SumAt(_)
SumAt(P) ==
    IF P = {} THEN 0
    ELSE LET i == CHOOSE x \in P : TRUE IN series_m[i].value + SumAt(P \ {i})

\* f is the arithmetic mean of the values at positions P (P non-empty), floored at 0
IsFlooredMeanOf(f, P) ==
    IF SumAt(P) > 0
    THEN f.num * Cardinality(P) = SumAt(P) * f.den
    ELSE f = Zero

\* C1: with at least one non-missing entry in the target's calendar month, the result
\* is the mean of the chronologically last min(k_years, c) same-month entries, floored at 0
C1_SameMonthMean ==
    (pc = "return" /\ SameMonth # {}) =>
        IsFlooredMeanOf(yhat, ChronLast(SameMonth, Min(k_years, Cardinality(SameMonth))))

\* a call that truncated the same-month entries to the last k_years, other months present
C1_Witness ==
    /\ pc = "return"
    /\ Cardinality(SameMonth) > k_years
    /\ Present \ SameMonth # {}
    /\ yhat.num > 0

\* C2: with no non-missing entry in the target's calendar month, the result is the mean
\* of the chronologically last min(fallback_last_n, len) non-missing entries, floored at 0
C2_FallbackMean ==
    (pc = "return" /\ Present # {} /\ SameMonth = {}) =>
        IsFlooredMeanOf(yhat, ChronLast(Present, Min(fallback_last_n, Cardinality(Present))))

\* a fallback call that truncated the series to the last fallback_last_n entries
C2_Witness ==
    /\ pc = "return"
    /\ SameMonth = {}
    /\ Cardinality(Present) > fallback_last_n
    /\ yhat.num > 0

\* C3: the result is never negative, and it is 0.0 when no non-missing entry exists
C3_NonNegative ==
    pc = "return" =>
        /\ yhat.num >= 0
        /\ yhat.den > 0
        /\ (Present = {} => yhat = Zero)

\* a call whose mean was negative and is returned as 0.0, in the fallback branch
C3_Witness ==
    /\ pc = "return"
    /\ SameMonth = {}
    /\ Present # {}
    /\ SumAt(ChronLast(Present, Min(fallback_last_n, Cardinality(Present)))) < 0
    /\ yhat = Zero

\* C10: the result is the same for every target with the same calendar month number
C10_MonthNumberOnly ==
    pc = "return" =>
        \A t \in TargetUniverse :
            t.month = target_month.month =>
                seasonal_baseline(series_m, t, k_years, fallback_last_n) = yhat

\* a call whose selected same-month entries include one dated after the target
C10_Witness ==
    /\ pc = "return"
    /\ \E i \in ChronLast(SameMonth, Min(k_years, Cardinality(SameMonth))) :
          TsLess(normalize_month(target_month), series_m[i].index)
    /\ \E i \in SameMonth : TsLess(series_m[i].index, normalize_month(target_month))
    /\ \E t \in TargetUniverse : t # target_month /\ t.month = target_month.month

----------------------------------------------------------------------------
(* Strings are sequences of one-character strings.                          *)

Whitespace == {" "}

\* str.lower() on one character
lower_char(c) ==
    CASE c = "A" -> "a"
      [] c = "B" -> "b"
      [] OTHER -> c

\* str.lower()
lower(x) == [i \in 1 .. Len(x) |-> lower_char(x[i])]

RECURSIVE lstrip(_)
lstrip(x) == IF x # <<>> /\ Head(x) \in Whitespace THEN lstrip(Tail(x)) ELSE x

RECURSIVE rstrip(_)
rstrip(x) ==
    IF x # <<>> /\ x[Len(x)] \in Whitespace THEN rstrip(SubSeq(x, 1, Len(x) - 1)) ELSE x

\* strip() dropped: the query is used untrimmed
strip_none(x) == x

\* str.strip()
strip(x) == rstrip(lstrip(x))

\* q is a prefix of x
startswith(x, q) == Len(q) <= Len(x) /\ SubSeq(x, 1, Len(q)) = q

\* a prefix test in place of the substring test
contains_prefix(x, q) == startswith(x, q)

\* q in x: q occurs in x as a contiguous substring
RECURSIVE contains(_, _)
contains(x, q) ==
    \/ startswith(x, q)
    \/ x # <<>> /\ contains(Tail(x), q)

\* the value None of a str parameter
None == <<"None">>

\* (query or "")
or_empty(v) == IF v = None \/ v = <<>> THEN <<>> ELSE v

\* list[:n]
slice_to(s, n) ==
    IF n >= 0
    THEN SubSeq(s, 1, IF n < Len(s) THEN n ELSE Len(s))
    ELSE SubSeq(s, 1, IF Len(s) + n > 0 THEN Len(s) + n ELSE 0)

safe_filter_options(opts, qry, n) ==
    LET q == lower(strip(or_empty(qry)))
    IN  IF q = <<>> THEN slice_to(opts, n)
        ELSE slice_to(SelectSeq(opts, LAMBDA x : contains(lower(x), q)), n)

----------------------------------------------------------------------------
(* SpecFilter: safe_filter_options on bounded inputs.                       *)

MaxOpts == 3         \* options in the list
MaxQLen == 2         \* characters of the query
MaxShow == 2         \* max_show is drawn from 0..MaxShow and the default

MAX_SHOW_DEFAULT == 250

OptionUniverse == {<<"A", "b">>, <<"b", "a">>, <<"B">>, <<"a", " ", "c">>}
QueryAlphabet == {"a", "B", " "}

SeqsUpTo(S, n) == UNION {[1 .. l -> S] : l \in 0 .. n}

InitFilter ==
    /\ pc = "call"
    /\ options \in SeqsUpTo(OptionUniverse, MaxOpts)
    /\ query \in SeqsUpTo(QueryAlphabet, MaxQLen) \cup {None}
    /\ max_show \in (0 .. MaxShow) \cup {MAX_SHOW_DEFAULT}
    /\ out = <<>>
    /\ InitBaselineIdle /\ InitAggIdle /\ InitOthersIdle

\* a call safe_filter_options(options, query, max_show)
CallSafeFilterOptions ==
    /\ pc = "call"
    /\ out' = safe_filter_options(options, query, max_show)
    /\ pc' = "return"
    /\ UNCHANGED <<options, query, max_show, baselineVars, aggVars, appVars>>

NextFilter == CallSafeFilterOptions

SpecFilter == InitFilter /\ [][NextFilter]_vars

\* the text of the query ("" for None)
QueryText == IF query = None THEN <<>> ELSE query

\* the query is empty or whitespace-only
Blank == \A i \in 1 .. Len(QueryText) : QueryText[i] \in Whitespace

\* the query without its leading and trailing whitespace, lower-cased (query not blank)
TrimmedLower ==
    LET a == CHOOSE i \in 1 .. Len(QueryText) :
                 /\ QueryText[i] \notin Whitespace
                 /\ \A j \in 1 .. i - 1 : QueryText[j] \in Whitespace
        b == CHOOSE i \in 1 .. Len(QueryText) :
                 /\ QueryText[i] \notin Whitespace
                 /\ \A j \in i + 1 .. Len(QueryText) : QueryText[j] \in Whitespace
    IN  [i \in 1 .. b - a + 1 |-> lower_char(QueryText[a + i - 1])]

\* the option at position i, lower-cased, has the trimmed lower-cased query as a substring
Matches(i) ==
    LET x == options[i]
        q == TrimmedLower
    IN  \E o \in 0 .. Len(x) - Len(q) :
            \A j \in 1 .. Len(q) : lower_char(x[o + j]) = q[j]

Matching == {i \in 1 .. Len(options) : Matches(i)}

\* the position in options of the j-th element of P, counted in the order of options
Nth(P, j) == CHOOSE i \in P : Cardinality({x \in P : x <= i}) = j

\* C4: with a non-blank query the result is the first max_show matching options, in the
\* order of options; a match is a case-insensitive substring match of the trimmed query
C4_FilterMatches ==
    (pc = "return" /\ ~Blank) =>
        /\ Len(out) = Min(max_show, Cardinality(Matching))
        /\ Len(out) <= max_show
        /\ \A j \in 1 .. Len(out) : out[j] = options[Nth(Matching, j)]
        /\ (Matching = {} => out = <<>>)

\* a call with an untrimmed mixed-case query that skipped a non-matching option and
\* cut the matches at max_show
C4_Witness ==
    /\ pc = "return"
    /\ ~Blank
    /\ QueryText # lower(QueryText)
    /\ Len(QueryText) > Len(TrimmedLower)
    /\ Cardinality(Matching) > max_show
    /\ 1 \notin Matching
    /\ out # <<>>

\* C5: with an empty or whitespace-only query the result is the first max_show options,
\* unchanged and in order
C5_BlankQuery ==
    (pc = "return" /\ Blank) =>
        /\ Len(out) = Min(max_show, Len(options))
        /\ \A j \in 1 .. Len(out) : out[j] = options[j]

\* a call with a whitespace-only query on options without whitespace, cut at max_show
C5_Witness ==
    /\ pc = "return"
    /\ Blank
    /\ QueryText # <<>>
    /\ Len(options) > max_show
    /\ \A i \in 1 .. Len(options) : \A j \in 1 .. Len(options[i]) : options[i][j] \notin Whitespace
    /\ out # <<>>

----------------------------------------------------------------------------
(* The company-month aggregate of tab3:                                     *)
(*   cat.groupby("anio_mes", as_index=False)[measures].sum()                *)
(*      .sort_values("anio_mes")                                            *)

Row(c, t, q, v, m) ==
    [categoria_final |-> c, anio_mes |-> t,
     q_total_mes |-> q, ventas_total_mes |-> v, margen_total_mes |-> m]

\* the distinct group keys in ascending order (groupby sorts its keys)
RECURSIVE sorted_keys(_)
sorted_keys(S) ==
    IF S = {} THEN <<>>
    ELSE LET t == MinTs(S) IN <<t>> \o sorted_keys(S \ {t})

\* .first() in place of .sum(): the measures of the first row of the group
RECURSIVE group_sum_first(_, _)
group_sum_first(rows, t) ==
    IF rows = <<>> THEN [anio_mes |-> t, q_total_mes |-> 0, ventas_total_mes |-> 0,
                         margen_total_mes |-> 0]
    ELSE IF Head(rows).anio_mes = t
         THEN [anio_mes |-> t, q_total_mes |-> Head(rows).q_total_mes,
               ventas_total_mes |-> Head(rows).ventas_total_mes,
               margen_total_mes |-> Head(rows).margen_total_mes]
         ELSE group_sum_first(Tail(rows), t)

\* .sum() of the group of month t: the three measures added over the rows of the group
RECURSIVE group_sum(_, _)
group_sum(rows, t) ==
    IF rows = <<>> THEN [anio_mes |-> t, q_total_mes |-> 0, ventas_total_mes |-> 0,
                         margen_total_mes |-> 0]
    ELSE LET rest == group_sum(Tail(rows), t)
             r == Head(rows)
         IN  IF r.anio_mes = t
             THEN [anio_mes |-> t,
                   q_total_mes |-> r.q_total_mes + rest.q_total_mes,
                   ventas_total_mes |-> r.ventas_total_mes + rest.ventas_total_mes,
                   margen_total_mes |-> r.margen_total_mes + rest.margen_total_mes]
             ELSE rest

\* groupby("anio_mes", as_index=False)[...].sum(): one row per key, keys ascending
groupby_sum(rows) ==
    LET keys == sorted_keys({rows[i].anio_mes : i \in 1 .. Len(rows)})
    IN  [i \in 1 .. Len(keys) |-> group_sum(rows, keys[i])]

RECURSIVE InsertByMonth(_, _)
InsertByMonth(r, s) ==
    IF s = <<>> THEN <<r>>
    ELSE IF TsLess(r.anio_mes, Head(s).anio_mes) THEN <<r>> \o s
    ELSE <<Head(s)>> \o InsertByMonth(r, Tail(s))

\* DataFrame.sort_values("anio_mes")
RECURSIVE sort_values(_)
sort_values(s) ==
    IF s = <<>> THEN <<>>
    ELSE InsertByMonth(s[Len(s)], sort_values(SubSeq(s, 1, Len(s) - 1)))

company_month(rows) == sort_values(groupby_sum(rows))

----------------------------------------------------------------------------
(* SpecAggregate: the aggregate on bounded category-month panels.           *)

MaxRows == 3         \* rows of the category-month panel

CategoryUniverse == {"Abarrotes", "Bebidas"}
PanelMonths == {Ts(2025, 11, 1), Ts(2025, 12, 1), Ts(2026, 1, 1)}
MeasureUniverse == {<<1, 10, -3>>, <<2, 5, 4>>}
RowUniverse ==
    {Row(c, t, x[1], x[2], x[3]) : c \in CategoryUniverse, t \in PanelMonths,
                                    x \in MeasureUniverse}

InitAggregate ==
    /\ pc = "call"
    /\ cat \in SeqsUpTo(RowUniverse, MaxRows)
    /\ dfE = <<>>
    /\ InitBaselineIdle /\ InitFilterIdle /\ InitOthersIdle

\* tab3 computes dfE from cat
ComputeCompanyMonth ==
    /\ pc = "call"
    /\ dfE' = company_month(cat)
    /\ pc' = "return"
    /\ UNCHANGED <<cat, baselineVars, filterVars, appVars>>

NextAggregate == ComputeCompanyMonth

SpecAggregate == InitAggregate /\ [][NextAggregate]_vars

\* the rows of cat of month t
RowsOf(t) == {j \in 1 .. Len(cat) : cat[j].anio_mes = t}

RECURSIVE TotalAt(_, _)
TotalAt(P, col) ==
    IF P = {} THEN 0
    ELSE LET j == CHOOSE x \in P : TRUE IN cat[j][col] + TotalAt(P \ {j}, col)

\* C6: the company-month panel has exactly one row per distinct month of the input,
\* ascending by month, each measure being the sum over the category rows of that month
C6_CompanyMonth ==
    pc = "return" =>
        /\ {dfE[i].anio_mes : i \in 1 .. Len(dfE)} = {cat[j].anio_mes : j \in 1 .. Len(cat)}
        /\ \A i, j \in 1 .. Len(dfE) : i < j => TsLess(dfE[i].anio_mes, dfE[j].anio_mes)
        /\ \A i \in 1 .. Len(dfE) :
              /\ dfE[i].q_total_mes = TotalAt(RowsOf(dfE[i].anio_mes), "q_total_mes")
              /\ dfE[i].ventas_total_mes = TotalAt(RowsOf(dfE[i].anio_mes), "ventas_total_mes")
              /\ dfE[i].margen_total_mes = TotalAt(RowsOf(dfE[i].anio_mes), "margen_total_mes")

\* a panel stored out of month order, with two categories in one month, was aggregated
C6_Witness ==
    /\ pc = "return"
    /\ Len(cat) = 3
    /\ TsLess(cat[3].anio_mes, cat[1].anio_mes)
    /\ cat[1].anio_mes = cat[2].anio_mes
    /\ cat[1].categoria_final # cat[2].categoria_final
    /\ cat[1].q_total_mes # cat[2].q_total_mes
    /\ Len(dfE) = 2

----------------------------------------------------------------------------
(* The script. One run executes the module top to bottom; st.stop() ends    *)
(* the run. Between runs the panel files may be rewritten or removed.       *)

PROD_PATH == "artifacts/panel_producto_mes.parquet"
CLI_PATH == "artifacts/panel_cliente_mes.parquet"
CAT_PATH == "artifacts/panel_categoria_mes.parquet"
Paths == {PROD_PATH, CLI_PATH, CAT_PATH}

MaxWrites == 1       \* rewrites of panel files by the external producer

HISTORY_ROWS == 24

ProdRow(name, t, q, v, m) ==
    [producto_normalizado |-> name, anio_mes |-> t,
     q_total_mes |-> q, ventas_total_mes |-> v, margen_total_mes |-> m]

CliRow(name, t, q, v, m) ==
    [cliente |-> name, anio_mes |-> t,
     q_total_mes |-> q, ventas_total_mes |-> v, margen_total_mes |-> m]

\* the rows stored in the file at path in its version v >= 1 (each rewrite appends a month);
\* the month column is stored as written by the producer, not normalised
FileRows(path, v) ==
    CASE path = PROD_PATH ->
            <<ProdRow(<<"A", "b">>, Ts(2025, 2, 14), 4, 40, 10),
              ProdRow(<<"B">>, Ts(2025, 12, 1), 6, 60, -8),
              ProdRow(<<"A", "b">>, Ts(2025, 12, 1), 2, 20, 5)>>
            \o [i \in 1 .. v - 1 |-> ProdRow(<<"b", "a">>, Ts(2026, i, 1), 3 * i, 30 * i, i)]
      [] path = CLI_PATH ->
            <<CliRow(<<"a", " ", "c">>, Ts(2025, 11, 1), 1, 10, 2),
              CliRow(<<"B">>, Ts(2025, 12, 20), 5, 50, 9)>>
            \o [i \in 1 .. v - 1 |-> CliRow(<<"B">>, Ts(2026, i, 1), i, 10 * i, -i)]
      [] path = CAT_PATH ->
            <<Row("Bebidas", Ts(2025, 12, 1), 2, 5, 4),
              Row("Abarrotes", Ts(2025, 2, 1), 1, 10, -3),
              Row("Abarrotes", Ts(2025, 12, 1), 1, 10, -3)>>
            \o [i \in 1 .. v - 1 |-> Row("Bebidas", Ts(2026, i, 1), i, 7 * i, 1 - i)]

\* the body of load_parquet: read the file, normalise the month column.
\* version and token record which file version was parsed and with which _mtime.
read_and_normalize(fs, path, mtime) ==
    LET raw == FileRows(path, fs[path].version)
    IN  [rows |-> [i \in 1 .. Len(raw) |->
                      [raw[i] EXCEPT !.anio_mes = normalize_month(raw[i].anio_mes)]],
         version |-> fs[path].version,
         token |-> mtime]

\* the key st.cache_data builds for load_parquet(path, _mtime): a parameter whose name
\* begins with an underscore is not hashed, so the key holds the path alone
cache_key(path, mtime) == <<path>>

NoLoad ==
    [loaded |-> FALSE, parsed |-> FALSE, token |-> 0, cached_token |-> 0,
     version |-> 0, disk_version |-> 0]

\* load_parquet(path, _mtime) under @st.cache_data: the stored table on a hit, else the
\* body is run and its result stored
load_parquet(c, fs, path, mtime) ==
    LET key == cache_key(path, mtime)
        hit == key \in DOMAIN c
        table == IF hit THEN c[key] ELSE read_and_normalize(fs, path, mtime)
        old == {k \in DOMAIN c : k[1] = path}
    IN  [table |-> table,
         cache |-> IF hit THEN c ELSE (key :> table) @@ c,
         info |-> [loaded |-> TRUE, parsed |-> ~hit, token |-> mtime,
                   cached_token |-> IF old = {} THEN 0
                                    ELSE c[CHOOSE k \in old :
                                             \A o \in old : c[o].token <= c[k].token].token,
                   version |-> table.version,
                   disk_version |-> fs[path].version]]

\* st.error without st.stop(): the check never halts the run
must_exist_no_stop(fs, path) == FALSE

\* must_exist(path): TRUE when the check reports the error and stops the run
must_exist(fs, path) == ~fs[path].exists

----------------------------------------------------------------------------
(* Text of the target-month input.                                          *)

Digits == <<"0", "1", "2", "3", "4", "5", "6", "7", "8", "9">>
DigitChar(d) == Digits[d + 1]
IsDigit(c) == \E d \in 0 .. 9 : Digits[d + 1] = c
DigitVal(c) == CHOOSE d \in 0 .. 9 : Digits[d + 1] = c

\* strftime("%Y-%m")
strftime_ym(t) ==
    <<DigitChar((t.year \div 1000) % 10), DigitChar((t.year \div 100) % 10),
      DigitChar((t.year \div 10) % 10), DigitChar(t.year % 10), "-",
      DigitChar((t.month \div 10) % 10), DigitChar(t.month % 10)>>

\* month_start_from_yyyymm(s) for texts "dddd-dd" and for texts that are no date at all:
\* ok is FALSE where pd.to_datetime raises
month_start_from_yyyymm(str) ==
    LET wellformed ==
            /\ Len(str) = 7
            /\ \A i \in {1, 2, 3, 4, 6, 7} : IsDigit(str[i])
            /\ str[5] = "-"
        y == 1000 * DigitVal(str[1]) + 100 * DigitVal(str[2]) + 10 * DigitVal(str[3])
                 + DigitVal(str[4])
        m == 10 * DigitVal(str[6]) + DigitVal(str[7])
    IN  IF wellformed /\ m \in 1 .. 12
        THEN [ok |-> TRUE, ts |-> normalize_month(Ts(y, m, 1))]
        ELSE [ok |-> FALSE, ts |-> Ts(0, 0, 0)]

\* ts + pd.offsets.MonthBegin(1) for a month-start ts
next_month_begin(t) ==
    IF t.month = 12 THEN Ts(t.year + 1, 1, 1) ELSE Ts(t.year, t.month + 1, 1)

\* (a.to_period("M") - b.to_period("M")).n
months_between(a, b) == (a.year - b.year) * 12 + (a.month - b.month)

MaxTs(S) == CHOOSE t \in S : \A u \in S : u = t \/ TsLess(u, t)

\* code points of the characters used in names
Ord(c) ==
    CASE c = " " -> 32
      [] c = "A" -> 65
      [] c = "B" -> 66
      [] c = "a" -> 97
      [] c = "b" -> 98
      [] c = "c" -> 99
      [] OTHER -> 122

\* x < y for Python strings
RECURSIVE StrLess(_, _)
StrLess(x, y) ==
    IF y = <<>> THEN FALSE
    ELSE IF x = <<>> THEN TRUE
    ELSE IF Head(x) = Head(y) THEN StrLess(Tail(x), Tail(y))
    ELSE Ord(Head(x)) < Ord(Head(y))

\* sorted(df[col].dropna().astype(str).unique().tolist())
RECURSIVE sorted_strings(_)
sorted_strings(S) ==
    IF S = {} THEN <<>>
    ELSE LET x == CHOOSE a \in S : \A b \in S : a = b \/ StrLess(a, b)
         IN  <<x>> \o sorted_strings(S \ {x})

unique_names(rows, col) == sorted_strings({rows[i][col] : i \in 1 .. Len(rows)})

Months(rows) == {rows[i].anio_mes : i \in 1 .. Len(rows)}

\* df.set_index("anio_mes")[col]
series_of(df, col) == [i \in 1 .. Len(df) |-> Entry(df[i].anio_mes, df[i][col], FALSE)]

NoView ==
    [sel |-> <<>>, last |-> Ts(0, 0, 0), yhat_q |-> Zero, yhat_v |-> Zero, yhat_m |-> Zero,
     history |-> <<>>]

\* the projections and history of one table: the three seasonal_baseline calls with the
\* default k_years and fallback_last_n, and tail(24)
\* (the metrics are kept as values: their formatting by fmt_int is not modelled, nor are
\* the count columns that only the history table shows)
view_of(df, sel, mes_obj) ==
    [sel |-> sel,
     last |-> MaxTs(Months(df)),
     yhat_q |-> seasonal_baseline(series_of(df, "q_total_mes"), mes_obj, K_YEARS, FALLBACK_LAST_N),
     yhat_v |-> seasonal_baseline(series_of(df, "ventas_total_mes"), mes_obj, K_YEARS, FALLBACK_LAST_N),
     yhat_m |-> seasonal_baseline(series_of(df, "margen_total_mes"), mes_obj, K_YEARS, FALLBACK_LAST_N),
     history |-> tail(df, HISTORY_ROWS)]

\* df[df[col].astype(str) == str(sel)].copy().sort_values("anio_mes")
rows_of_entity(df, col, sel) == sort_values(SelectSeq(df, LAMBDA r : r[col] = sel))

----------------------------------------------------------------------------
(* One run of the script.                                                   *)

NoRun ==
    [status |-> "never", rendered |-> {}, missing_at_start |-> {}, error_path |-> "",
     loads |-> [p \in Paths |-> NoLoad],
     metrics |-> [productos |-> 0, clientes |-> 0, categorias |-> 0, last_month |-> Ts(0, 0, 0)],
     mes_obj |-> Ts(0, 0, 0), horizon |-> 0,
     tab1 |-> NoView, tab2 |-> NoView, tab3 |-> NoView]

\* one module-level load: os.path.getmtime raises on a missing file, else load_parquet
load_step(fs, acc, path) ==
    IF ~acc.ok THEN acc
    ELSE IF ~fs[path].exists THEN [acc EXCEPT !.ok = FALSE]
    ELSE LET l == load_parquet(acc.cache, fs, path, fs[path].mtime)
         IN  [ok |-> TRUE, cache |-> l.cache,
              tables |-> (path :> l.table) @@ acc.tables,
              loads |-> [acc.loads EXCEPT ![path] = l.info]]

\* tab3: the company aggregate and its projections
tab3_stage(r, catRows) ==
    LET agg == company_month(catRows)
    IN  [r EXCEPT !.status = "complete",
                  !.tab3 = view_of(agg, <<>>, r.mes_obj),
                  !.rendered = @ \cup {"tab3_caption", "tab3_metrics", "tab3_history"}]

\* tab2: client search, selector, projections; st.stop() on an empty selector
tab2_stage(r, cliRows, catRows, q_cli, pick_c) ==
    LET clientes == unique_names(cliRows, "cliente")
        cli_fil == safe_filter_options(clientes, q_cli, MAX_SHOW_DEFAULT)
        cliente_sel == cli_fil[IF pick_c <= Len(cli_fil) THEN pick_c ELSE 1]
        dfc == rows_of_entity(cliRows, "cliente", cliente_sel)
    IN  IF cli_fil = <<>>
        THEN [r EXCEPT !.status = "no_client",
                       !.rendered = @ \cup {"tab2_search", "tab2_warning"}]
        ELSE tab3_stage([r EXCEPT !.tab2 = view_of(dfc, cliente_sel, r.mes_obj),
                                  !.rendered = @ \cup {"tab2_search", "tab2_select",
                                                       "tab2_caption", "tab2_metrics",
                                                       "tab2_history"}],
                        catRows)

\* tab1: product search, selector, projections; st.stop() on an empty selector
tab1_stage(r, prodRows, cliRows, catRows, q_prod, q_cli, pick_p, pick_c) ==
    LET productos == unique_names(prodRows, "producto_normalizado")
        prod_fil == safe_filter_options(productos, q_prod, MAX_SHOW_DEFAULT)
        producto_sel == prod_fil[IF pick_p <= Len(prod_fil) THEN pick_p ELSE 1]
        dfp == rows_of_entity(prodRows, "producto_normalizado", producto_sel)
    IN  IF prod_fil = <<>>
        THEN [r EXCEPT !.status = "no_product",
                       !.rendered = @ \cup {"tab1_search", "tab1_warning"}]
        ELSE tab2_stage([r EXCEPT !.tab1 = view_of(dfp, producto_sel, r.mes_obj),
                                  !.rendered = @ \cup {"tab1_search", "tab1_select",
                                                       "tab1_caption", "tab1_metrics",
                                                       "tab1_history"}],
                        cliRows, catRows, q_cli, pick_c)

\* header metrics, target month input and the three tabs
render_stage(r, tables, typed, q_prod, q_cli, pick_p, pick_c) ==
    LET prodRows == tables[PROD_PATH].rows
        cliRows == tables[CLI_PATH].rows
        catRows == tables[CAT_PATH].rows
        last_month == MaxTs(Months(prodRows) \cup Months(cliRows) \cup Months(catRows))
        default_next == normalize_month(next_month_begin(last_month))
        mes_str == IF typed = None THEN strftime_ym(default_next) ELSE typed
        parsed == month_start_from_yyyymm(mes_str)
        r1 == [r EXCEPT !.metrics =
                            [productos |-> Len(unique_names(prodRows, "producto_normalizado")),
                             clientes |-> Len(unique_names(cliRows, "cliente")),
                             categorias |-> Cardinality({catRows[i].categoria_final :
                                                            i \in 1 .. Len(catRows)}),
                             last_month |-> last_month],
                        !.rendered = @ \cup {"metrics", "mes_input"}]
    IN  IF ~parsed.ok
        THEN [r1 EXCEPT !.status = "bad_month", !.rendered = @ \cup {"error_format"}]
        ELSE tab1_stage([r1 EXCEPT !.mes_obj = parsed.ts,
                                   !.horizon = months_between(parsed.ts, last_month),
                                   !.rendered = @ \cup {"mes_caption", "tabs"}],
                        prodRows, cliRows, catRows, q_prod, q_cli, pick_p, pick_c)

\* the whole script: title, the three must_exist checks, the three loads, the page
Script(fs, c, typed, q_prod, q_cli, pick_p, pick_c) ==
    LET r0 == [NoRun EXCEPT !.status = "running",
                            !.rendered = {"title", "caption"},
                            !.missing_at_start = {p \in Paths : ~fs[p].exists}]
        stopped == SelectSeq(<<PROD_PATH, CLI_PATH, CAT_PATH>>, LAMBDA p : must_exist(fs, p))
        a0 == [ok |-> TRUE, cache |-> c, tables |-> <<>>, loads |-> r0.loads]
        a3 == load_step(fs, load_step(fs, load_step(fs, a0, PROD_PATH), CLI_PATH), CAT_PATH)
    IN  IF stopped # <<>>
        THEN [cache |-> c,
              run |-> [r0 EXCEPT !.status = "missing_file",
                                 !.error_path = Head(stopped),
                                 !.rendered = @ \cup {"error_missing"}]]
        ELSE IF ~a3.ok
        THEN [cache |-> a3.cache,
              run |-> [r0 EXCEPT !.status = "crashed", !.loads = a3.loads]]
        ELSE [cache |-> a3.cache,
              run |-> render_stage([r0 EXCEPT !.loads = a3.loads], a3.tables,
                                   typed, q_prod, q_cli, pick_p, pick_c)]

----------------------------------------------------------------------------
(* Spec: the files, the cache and the runs.                                 *)

\* texts the user may leave in the target-month input (None: the default is kept)
MesTyped == {None, <<"2", "0", "2", "5", "-", "1", "2">>, <<"x">>}

\* texts the user may type in a search box
SearchUniverse == {<<>>, <<"a">>, <<"z">>}

\* positions of a selectbox the user may pick (the first is the default)
PickUniverse == {1, 2}

Init ==
    /\ pc = "idle"
    /\ files = [p \in Paths |-> [exists |-> TRUE, mtime |-> 1, version |-> 1]]
    /\ cache = <<>>
    /\ run = NoRun
    /\ InitBaselineIdle /\ InitFilterIdle /\ InitAggIdle

\* a user interaction reruns the script
Rerun ==
    /\ pc = "idle"
    /\ \E typed \in MesTyped, q_prod \in SearchUniverse, q_cli \in SearchUniverse,
          pick_p \in PickUniverse, pick_c \in PickUniverse :
          LET res == Script(files, cache, typed, q_prod, q_cli, pick_p, pick_c)
          IN  /\ run' = res.run
              /\ cache' = res.cache
    /\ UNCHANGED <<pc, files, baselineVars, filterVars, aggVars>>

\* the external producer writes a new version of a panel file
WriteFile(p) ==
    /\ pc = "idle"
    /\ files[PROD_PATH].version + files[CLI_PATH].version + files[CAT_PATH].version
           < 3 + MaxWrites
    /\ files' = [files EXCEPT ![p] = [exists |-> TRUE, mtime |-> @.mtime + 1,
                                      version |-> @.version + 1]]
    /\ UNCHANGED <<pc, cache, run, baselineVars, filterVars, aggVars>>

\* a panel file is removed
DeleteFile(p) ==
    /\ pc = "idle"
    /\ files[p].exists
    /\ files' = [files EXCEPT ![p].exists = FALSE]
    /\ UNCHANGED <<pc, cache, run, baselineVars, filterVars, aggVars>>

Next ==
    \/ Rerun
    \/ \E p \in Paths : WriteFile(p)
    \/ \E p \in Paths : DeleteFile(p)

Spec == Init /\ [][Next]_vars

\* C7: a load whose freshness token differs from the cached entry's token parses the
\* file afresh, and the table a run uses is the parse of the file's current version
C7_FreshParse ==
    \A p \in Paths :
        run.loads[p].loaded =>
            /\ (run.loads[p].cached_token # run.loads[p].token => run.loads[p].parsed)
            /\ run.loads[p].version = run.loads[p].disk_version

\* what a run may show when it halts at a must_exist check
HaltedPage == {"title", "caption", "error_missing"}

\* C8: a run started with a panel file missing reports the error and halts: no panel is
\* loaded, and no metric, input, selector, projection or history is rendered
C8_MissingFileHalts ==
    run.missing_at_start # {} =>
        /\ run.status = "missing_file"
        /\ "error_missing" \in run.rendered
        /\ run.error_path \in run.missing_at_start
        /\ run.rendered \subseteq HaltedPage
        /\ \A p \in Paths : ~run.loads[p].loaded
        /\ run.tab1 = NoView /\ run.tab2 = NoView /\ run.tab3 = NoView

\* a run halted because only the last-checked file is missing, after an earlier run
\* had loaded all three panels
C8_Witness ==
    /\ run.status = "missing_file"
    /\ run.missing_at_start = {CAT_PATH}
    /\ DOMAIN cache # {}

\* C9: a search without matches halts only its own view: the later views are rendered
\* with their projections
C9_ViewLocal ==
    /\ run.status = "no_product" =>
          {"tab2_metrics", "tab3_metrics"} \subseteq run.rendered
    /\ run.status = "no_client" =>
          "tab3_metrics" \in run.rendered

====
